---- MODULE Spec2Model ----
(***************************************************************************)
(* Model of instana.agent.host.HostAgent (src/instana/agent/host.py): the  *)
(* announce/readiness state, the fork detection of can_send, reset, the    *)
(* timeout check and the four collector operations.                        *)
(*                                                                         *)
(* Every method of HostAgent is an operator from the object (`self`, the   *)
(* record held in the variable agent) and the method's inputs to a result  *)
(* record: the object after the call, the value returned, whether an       *)
(* exception left the method, the HTTP requests it issued and how many     *)
(* times it ran reset() and machine.reset().  Every action applies one     *)
(* method as a whole.  SpecConc replaces the atomic reset by one step per  *)
(* statement of reset(), so that other threads observe its intermediate    *)
(* states.                                                                 *)
(*                                                                         *)
(* Environment: the pids of one fork lineage are pairwise distinct (a      *)
(* child never gets the pid of one of its ancestors); the clock counts     *)
(* whole seconds and never runs backwards.                                 *)
(***************************************************************************)
EXTENDS Integers, Sequences, FiniteSets, TLC

VARIABLES
    agent,          \* the HostAgent singleton: its fields and its machine
    os_pid,         \* what os.getpid() returns in the running process
    now,            \* what datetime.now() returns, in whole seconds
    ticks,          \* how many times the clock has advanced
    gate_passed,    \* a producer saw can_send() return True and has not pushed yet
    thread,         \* where a second thread is inside the method it is running
    op,             \* the method the last action called
    arg,            \* the argument it was called with, None for a call without one
    announced_once, \* set_from has succeeded at least once since construction
    accepted,       \* the announce_data the latest successful set_from stored
    ret,            \* what that method returned
    raised,         \* whether an exception left that method
    net,            \* the HTTP requests that method issued, in order
    resets,         \* how many times reset() ran inside that method
    machine_resets, \* how many times machine.reset() ran inside that method
    reset_pc        \* SpecConc: the statement of reset() the resetting thread is at

vars == <<agent, os_pid, now, ticks, gate_passed, announced_once, accepted, op, arg, ret,
          raised, net, resets, machine_resets, reset_pc, thread>>

----------------------------------------------------------------------------
(* Bounds of the model *)

MaxForks == 2
MaxTicks == 2
MaxSpans == 1

(* Python values *)

None == << >>
Some(x) == << x >>

PyNone == [t |-> "None", v |-> 0]
PyBool(b) == [t |-> "bool", v |-> IF b THEN 1 ELSE 0]
PyResponse(status_code) == [t |-> "Response", v |-> status_code]

(* What the transport client does with one request: it raises, or it
   returns a response with a status code. *)
TransportOutcomes ==
    { [exc |-> TRUE, status_code |-> 0],
      [exc |-> FALSE, status_code |-> 200],
      [exc |-> FALSE, status_code |-> 503] }

(* The clock advances by half a minute, by a second more, or by a day. *)
TickSteps == { 30, 31, 24 * 60 * 60 }

(* The bodies the collector may answer an announce with. *)
Payloads ==
    { [json_ok |-> FALSE, keys |-> {}, pid |-> 0, agentUuid |-> "",
       matcher |-> "", list |-> "", extraHeaders |-> ""],
      [json_ok |-> TRUE, keys |-> {"pid", "agentUuid"}, pid |-> 7, agentUuid |-> "u1",
       matcher |-> "", list |-> "", extraHeaders |-> ""],
      [json_ok |-> TRUE, keys |-> {"pid", "agentUuid", "secrets", "extraHeaders"},
       pid |-> 42, agentUuid |-> "abc",
       matcher |-> "regex", list |-> "collector-list", extraHeaders |-> "X-Collector"],
      [json_ok |-> TRUE, keys |-> {"agentUuid", "secrets", "extraHeaders"},
       pid |-> 0, agentUuid |-> "u2",
       matcher |-> "equals", list |-> "other-list", extraHeaders |-> "X-Other"] }

(* The tasks the collector may push: a messageId, and optionally an action
   and its args. *)
Tasks ==
    { [messageId |-> "m1", keys |-> {"messageId", "action", "args"},
       action |-> "python.source", file |-> "app.py"],
      [messageId |-> "m2", keys |-> {"messageId", "action"},
       action |-> "unknown.x", file |-> ""],
      [messageId |-> "m3", keys |-> {"messageId"},
       action |-> "", file |-> ""],
      [messageId |-> "m4", keys |-> {"messageId", "action"},
       action |-> "python.source", file |-> ""] }

(* The second thread: the statement it is at, the values it has read so far
   ('e' and 'h' of get_from_structure, the pid of the URL of a push), and
   whether reset() ran since its request went out. *)
ThreadAt(pc, e, h, stale) == [pc |-> pc, e |-> e, h |-> h, stale |-> stale]

(* The result of a method call. *)
Result(self, value, exc, requests, n_resets, n_machine_resets) ==
    [self |-> self, ret |-> value, raised |-> exc, net |-> requests,
     resets |-> n_resets, machine_resets |-> n_machine_resets]

Request(method, path, pid, outcome) ==
    [method |-> method, path |-> path, pid |-> pid, outcome |-> outcome]

----------------------------------------------------------------------------
(* The announce state machine, seen through machine.fsm.current and
   machine.reset(): not-announced -> announcing -> announced-but-not-ready
   -> ready ("good2go"). *)

MachineStates == { "notannounced", "announcing", "announced", "good2go" }

AnnouncedOrBeyond == { "announced", "good2go" }

machine_reset(machine) ==
    [machine EXCEPT !.current = "notannounced", !.response = FALSE]

----------------------------------------------------------------------------
(* HostAgent *)

InitAgent ==
    [ announce_data |-> None,
      last_seen |-> None,
      boot_pid |-> 1,
      should_threads_shutdown |-> FALSE,
      secrets_matcher |-> "default",
      secrets_list |-> "default",
      extra_headers |-> "default",
      machine |-> [current |-> "notannounced", response |-> FALSE] ]

(* A start() that leaves the shutdown event as it finds it. *)
start_keeps_shutdown(self) ==
    Result(self, PyNone, FALSE, << >>, 0, 0)

start(self) ==
    Result([self EXCEPT !.should_threads_shutdown = FALSE], PyNone, FALSE, << >>, 0, 0)

(* The four statements of reset(), in the order of the source. *)
reset_sets_shutdown(self) == [self EXCEPT !.should_threads_shutdown = TRUE]

(* A reset() statement for last_seen that leaves the field as it is. *)
reset_keeps_last_seen(self) == self

reset_clears_last_seen(self) == [self EXCEPT !.last_seen = None]

reset_clears_announce_data(self) == [self EXCEPT !.announce_data = None]

reset_restarts_machine(self) == [self EXCEPT !.machine = machine_reset(self.machine)]

(* A reset() that leaves the announce identity in place. *)
reset_keeps_announce_data(self) ==
    LET s86 == reset_sets_shutdown(self)
        s88 == reset_clears_last_seen(s86)
        s92 == reset_restarts_machine(s88)
    IN  Result(s92, PyNone, FALSE, << >>, 1, 1)

(* A reset() that clears announce_data only when last_seen was already clear. *)
reset_one_field_per_call(self) ==
    LET s86 == reset_sets_shutdown(self)
        s89 == IF s86.last_seen # None
               THEN reset_clears_last_seen(s86)
               ELSE reset_clears_announce_data(s86)
        s92 == reset_restarts_machine(s89)
    IN  Result(s92, PyNone, FALSE, << >>, 1, 1)

reset(self) ==
    LET s86 == reset_sets_shutdown(self)
        s88 == reset_clears_last_seen(s86)
        s89 == reset_clears_announce_data(s88)
        s92 == reset_restarts_machine(s89)
    IN  Result(s92, PyNone, FALSE, << >>, 1, 1)

(* A handle_fork() that does not call reset(). *)
handle_fork_without_reset(self) ==
    Result(self, PyNone, FALSE, << >>, 0, 0)

handle_fork(self) == reset(self)

(* A data URL built from the pid of the process instead of the announced one. *)
data_url_uses_boot_pid(self) ==
    IF self.announce_data = None
    THEN [exc |-> TRUE, path |-> "", pid |-> None]
    ELSE [exc |-> FALSE, path |-> "com.instana.plugin.python.",
          pid |-> Some(self.boot_pid)]

(* A can_send() that detects the fork and does not record the new pid. *)
can_send_keeps_boot_pid(self, current_pid) ==
    IF self.boot_pid # current_pid
    THEN LET r == handle_fork(self)
         IN  [r EXCEPT !.ret = PyBool(FALSE)]
    ELSE IF self.machine.current = "good2go"
         THEN Result(self, PyBool(TRUE), FALSE, << >>, 0, 0)
         ELSE Result(self, PyBool(FALSE), FALSE, << >>, 0, 0)

(* A can_send() that takes every state from "announced" on for ready. *)
can_send_when_announced(self, current_pid) ==
    IF self.boot_pid # current_pid
    THEN LET r == handle_fork([self EXCEPT !.boot_pid = current_pid])
         IN  [r EXCEPT !.ret = PyBool(FALSE)]
    ELSE IF self.machine.current \in AnnouncedOrBeyond
         THEN Result(self, PyBool(TRUE), FALSE, << >>, 0, 0)
         ELSE Result(self, PyBool(FALSE), FALSE, << >>, 0, 0)

can_send(self, current_pid) ==
    IF self.boot_pid # current_pid
    THEN LET r == handle_fork([self EXCEPT !.boot_pid = current_pid])
         IN  [r EXCEPT !.ret = PyBool(FALSE)]
    ELSE IF self.machine.current = "good2go"
         THEN Result(self, PyBool(TRUE), FALSE, << >>, 0, 0)
         ELSE Result(self, PyBool(FALSE), FALSE, << >>, 0, 0)

(* timedelta.seconds: the seconds of the difference that are left after
   its whole days are taken out. *)
timedelta_seconds(diff) == diff % (24 * 60 * 60)

TimeoutSeconds == 60

(* is_timed_out reads the attribute self.can_send and does not call it: a
   bound method is a true value. *)
can_send_attribute_is_true == TRUE

is_timed_out(self, t_now) ==
    IF self.last_seen # None /\ can_send_attribute_is_true
    THEN LET diff == t_now - self.last_seen[1]
         IN  IF timedelta_seconds(diff) > TimeoutSeconds
             THEN Result(self, PyBool(TRUE), FALSE, << >>, 0, 0)
             ELSE Result(self, PyBool(FALSE), FALSE, << >>, 0, 0)
    ELSE Result(self, PyBool(FALSE), FALSE, << >>, 0, 0)

(* A set_from() that catches the parse error of json.loads and returns. *)
set_from_swallows_parse_error(self, payload) ==
    IF ~payload.json_ok
    THEN Result(self, PyNone, FALSE, << >>, 0, 0)
    ELSE LET s139 == IF "secrets" \in payload.keys
                     THEN [self EXCEPT !.secrets_matcher = payload.matcher,
                                       !.secrets_list = payload.list]
                     ELSE self
             s142 == IF "extraHeaders" \in payload.keys
                     THEN [s139 EXCEPT !.extra_headers = payload.extraHeaders]
                     ELSE s139
         IN  IF {"pid", "agentUuid"} \subseteq payload.keys
             THEN Result([s142 EXCEPT !.announce_data =
                              Some([pid |-> payload.pid, agentUuid |-> payload.agentUuid])],
                         PyNone, FALSE, << >>, 0, 0)
             ELSE Result(s142, PyNone, TRUE, << >>, 0, 0)

(* json.loads, the optional keys, then AnnounceData(pid=..., agentUuid=...):
   the statements run in this order and the first that raises ends the call. *)
set_from(self, payload) ==
    IF ~payload.json_ok
    THEN Result(self, PyNone, TRUE, << >>, 0, 0)
    ELSE LET s139 == IF "secrets" \in payload.keys
                     THEN [self EXCEPT !.secrets_matcher = payload.matcher,
                                       !.secrets_list = payload.list]
                     ELSE self
             s142 == IF "extraHeaders" \in payload.keys
                     THEN [s139 EXCEPT !.extra_headers = payload.extraHeaders]
                     ELSE s139
         IN  IF {"pid", "agentUuid"} \subseteq payload.keys
             THEN Result([s142 EXCEPT !.announce_data =
                              Some([pid |-> payload.pid, agentUuid |-> payload.agentUuid])],
                         PyNone, FALSE, << >>, 0, 0)
             ELSE Result(s142, PyNone, TRUE, << >>, 0, 0)

(* return {'e': self.announce_data.pid, 'h': self.announce_data.agentUuid}:
   the dict display evaluates the value of 'e', then the value of 'h'; each
   reads self.announce_data anew and raises AttributeError when it is None. *)
get_from_structure_e(self) ==
    IF self.announce_data = None
    THEN [exc |-> TRUE, value |-> None]
    ELSE [exc |-> FALSE, value |-> Some(self.announce_data[1].pid)]

get_from_structure_h(self) ==
    IF self.announce_data = None
    THEN [exc |-> TRUE, value |-> None]
    ELSE [exc |-> FALSE, value |-> Some(self.announce_data[1].agentUuid)]

(* The URL builders: the path and the pid it ends with.  The data and traces
   URLs read self.announce_data.pid, which raises when announce_data is None. *)
discovery_url(self) ==
    [exc |-> FALSE, path |-> "com.instana.plugin.python.discovery", pid |-> None]

data_url(self) ==
    IF self.announce_data = None
    THEN [exc |-> TRUE, path |-> "", pid |-> None]
    ELSE [exc |-> FALSE, path |-> "com.instana.plugin.python.",
          pid |-> Some(self.announce_data[1].pid)]

traces_url(self) ==
    IF self.announce_data = None
    THEN [exc |-> TRUE, path |-> "", pid |-> None]
    ELSE [exc |-> FALSE, path |-> "com.instana.plugin.python/traces.",
          pid |-> Some(self.announce_data[1].pid)]

response_url(self, message_id) ==
    IF self.announce_data = None
    THEN [exc |-> TRUE, path |-> "", pid |-> None]
    ELSE [exc |-> FALSE, path |-> "com.instana.plugin.python/response.",
          pid |-> Some(self.announce_data[1].pid)]

(* The try block of a collector operation: the URL is built, the request is
   sent, and a 200 response may update the object.  `on_200` is the object
   after the statements that follow a 200 response. *)
try_request(self, method, url, outcome, on_200) ==
    IF url.exc
    THEN [exc |-> TRUE, self |-> self, response |-> PyNone, net |-> << >>]
    ELSE LET req == Request(method, url.path, url.pid, outcome)
         IN  IF outcome.exc
             THEN [exc |-> TRUE, self |-> self, response |-> PyNone, net |-> << req >>]
             ELSE [exc |-> FALSE,
                   self |-> IF outcome.status_code = 200 THEN on_200 ELSE self,
                   response |-> PyResponse(outcome.status_code),
                   net |-> << req >>]

(* A handler that catches the transport's errors only and returns after the
   try statement. *)
return_after_try(body, value) ==
    Result(body.self, IF body.exc THEN PyNone ELSE value,
           body.exc /\ body.net = << >>, body.net, 0, 0)

(* except Exception: log; finally: return the value.  The return in the
   finally clause ends the call whatever the try block did. *)
except_finally_return(body, value) ==
    Result(body.self, value, FALSE, body.net, 0, 0)

is_agent_listening(self, outcome, server_header) ==
    LET req == Request("GET", "", None, outcome)
    IN  IF outcome.exc
        THEN Result(self, PyBool(FALSE), FALSE, << req >>, 0, 0)
        ELSE Result(self, PyBool(server_header = "Instana Agent"), FALSE, << req >>, 0, 0)

(* An announce() that leaves last_seen alone. *)
announce_forgets_last_seen(self, t_now, outcome) ==
    LET body == try_request(self, "PUT", discovery_url(self), outcome, self)
    IN  except_finally_return(body, body.response)

announce(self, t_now, outcome) ==
    LET body == try_request(self, "PUT", discovery_url(self), outcome,
                            [self EXCEPT !.last_seen = Some(t_now)])
    IN  except_finally_return(body, body.response)

is_agent_ready(self, outcome) ==
    LET body == try_request(self, "HEAD", data_url(self), outcome, self)
        ready == ~body.exc /\ body.response = PyResponse(200)
    IN  except_finally_return(body, PyBool(ready))

(* A report_data_payload() that takes every response for a contact. *)
report_data_payload_any_status(self, t_now, outcome) ==
    LET body == try_request(self, "POST", data_url(self), outcome, self)
        seen == IF body.exc THEN body
                ELSE [body EXCEPT !.self = [self EXCEPT !.last_seen = Some(t_now)]]
    IN  except_finally_return(seen, seen.response)

report_data_payload(self, t_now, outcome) ==
    LET body == try_request(self, "POST", data_url(self), outcome,
                            [self EXCEPT !.last_seen = Some(t_now)])
    IN  except_finally_return(body, body.response)

(* A report_traces() without the check for an empty list of spans. *)
report_traces_sends_empty(self, t_now, n_spans, outcome) ==
    LET body == try_request(self, "POST", traces_url(self), outcome,
                            [self EXCEPT !.last_seen = Some(t_now)])
    IN  except_finally_return(body, body.response)

(* With no spans the try block returns 0 before any request; the finally
   clause then returns response, which is still None. *)
report_traces(self, t_now, n_spans, outcome) ==
    LET body == IF n_spans = 0
                THEN [exc |-> FALSE, self |-> self, response |-> PyNone, net |-> << >>]
                ELSE try_request(self, "POST", traces_url(self), outcome,
                                 [self EXCEPT !.last_seen = Some(t_now)])
    IN  except_finally_return(body, body.response)

(* The payloads of a task response. *)
get_py_source(file) == [kind |-> "source", about |-> file, version |-> FALSE]

unrecognized_action_error(action) == [kind |-> "error", about |-> action, version |-> TRUE]

no_action_error == [kind |-> "error", about |-> "No action specified", version |-> FALSE]

task_response(self, message_id, data, outcome) ==
    LET url == response_url(self, message_id)
        req == [method |-> "POST", path |-> url.path, pid |-> url.pid, outcome |-> outcome,
                message_id |-> message_id, data |-> data]
        body == IF url.exc
                THEN [exc |-> TRUE, self |-> self, response |-> PyNone, net |-> << >>]
                ELSE IF outcome.exc
                THEN [exc |-> TRUE, self |-> self, response |-> PyNone, net |-> << req >>]
                ELSE [exc |-> FALSE, self |-> self,
                      response |-> PyResponse(outcome.status_code), net |-> << req >>]
    IN  except_finally_return(body, body.response)

(* A handle_agent_tasks() that answers only the tasks that name an action. *)
handle_agent_tasks_skips_missing_action(self, task, outcome) ==
    IF "messageId" \notin task.keys
    THEN Result(self, PyNone, TRUE, << >>, 0, 0)
    ELSE IF "action" \notin task.keys
    THEN Result(self, PyNone, FALSE, << >>, 0, 0)
    ELSE IF task.action = "python.source" /\ "args" \notin task.keys
    THEN Result(self, PyNone, TRUE, << >>, 0, 0)
    ELSE LET payload == IF task.action = "python.source"
                        THEN get_py_source(task.file)
                        ELSE unrecognized_action_error(task.action)
             sent == task_response(self, task.messageId, payload, outcome)
         IN  Result(sent.self, PyNone, FALSE, sent.net, 0, 0)

(* A handle_agent_tasks() that raises for an action it does not know. *)
handle_agent_tasks_raises_on_unknown(self, task, outcome) ==
    IF "messageId" \notin task.keys
    THEN Result(self, PyNone, TRUE, << >>, 0, 0)
    ELSE IF "action" \in task.keys /\ task.action # "python.source"
    THEN Result(self, PyNone, TRUE, << >>, 0, 0)
    ELSE IF "action" \in task.keys /\ "args" \notin task.keys
    THEN Result(self, PyNone, TRUE, << >>, 0, 0)
    ELSE LET payload == IF "action" \in task.keys
                        THEN get_py_source(task.file)
                        ELSE no_action_error
             sent == task_response(self, task.messageId, payload, outcome)
         IN  Result(sent.self, PyNone, FALSE, sent.net, 0, 0)

(* task["messageId"], task["action"] and task["args"]["file"] raise KeyError
   when the key is missing; nothing in handle_agent_tasks catches it. *)
handle_agent_tasks(self, task, outcome) ==
    IF "messageId" \notin task.keys
    THEN Result(self, PyNone, TRUE, << >>, 0, 0)
    ELSE IF "action" \in task.keys /\ task.action = "python.source" /\ "args" \notin task.keys
    THEN Result(self, PyNone, TRUE, << >>, 0, 0)
    ELSE LET payload == IF "action" \in task.keys
                        THEN IF task.action = "python.source"
                             THEN get_py_source(task.file)
                             ELSE unrecognized_action_error(task.action)
                        ELSE no_action_error
             sent == task_response(self, task.messageId, payload, outcome)
         IN  Result(sent.self, PyNone, FALSE, sent.net, 0, 0)

----------------------------------------------------------------------------
(* What the state machine does with the results of the calls it makes. *)

machine_after_lookup(machine, found) ==
    IF found /\ machine.current = "notannounced"
    THEN [machine EXCEPT !.current = "announcing"]
    ELSE machine

machine_after_announce(machine, response) ==
    [machine EXCEPT !.response = (response = PyResponse(200))]

machine_after_set_from(machine, failed) ==
    IF failed
    THEN [machine EXCEPT !.response = FALSE]
    ELSE [machine EXCEPT !.response = FALSE, !.current = "announced"]

machine_becomes_ready(machine, ready) ==
    ready = PyBool(TRUE) /\ machine.current = "announced"

----------------------------------------------------------------------------
Init ==
    /\ agent = InitAgent
    /\ os_pid = 1
    /\ now = 0
    /\ ticks = 0
    /\ gate_passed = FALSE
    /\ op = "init"
    /\ arg = None
    /\ announced_once = FALSE
    /\ accepted = None
    /\ ret = PyNone
    /\ raised = FALSE
    /\ net = << >>
    /\ resets = 0
    /\ machine_resets = 0
    /\ reset_pc = "idle"
    /\ thread = ThreadAt("idle", None, None, FALSE)

(* What a call of `name` with the result r leaves behind. *)
Effects(name, r) ==
    /\ agent' = r.self
    /\ op' = name
    /\ ret' = r.ret
    /\ raised' = r.raised
    /\ net' = r.net
    /\ resets' = r.resets
    /\ machine_resets' = r.machine_resets
    /\ accepted' = IF name = "set_from" /\ ~r.raised THEN r.self.announce_data ELSE accepted

(* The last action called `name` without an argument and got the result r. *)
Called(name, r) ==
    /\ Effects(name, r)
    /\ arg' = None
    /\ thread' = thread

(* The last action called `name` with the argument a and got the result r. *)
CalledWith(name, a, r) ==
    /\ Effects(name, r)
    /\ arg' = Some(a)
    /\ thread' = thread

Tick ==
    /\ ticks < MaxTicks
    /\ \E d \in TickSteps : now' = now + d
    /\ ticks' = ticks + 1
    /\ Called("tick", Result(agent, PyNone, FALSE, << >>, 0, 0))
    /\ UNCHANGED <<os_pid, gate_passed, announced_once, reset_pc>>

Fork ==
    /\ os_pid < 1 + MaxForks
    /\ os_pid' = os_pid + 1
    /\ Called("fork", Result(agent, PyNone, FALSE, << >>, 0, 0))
    /\ UNCHANGED <<now, ticks, gate_passed, announced_once, reset_pc>>

CanSend ==
    LET r == can_send(agent, os_pid)
    IN  /\ Called("can_send", r)
        /\ gate_passed' = (r.ret = PyBool(TRUE))
        /\ UNCHANGED <<os_pid, now, ticks, announced_once, reset_pc>>

IsTimedOut ==
    /\ Called("is_timed_out", is_timed_out(agent, now))
    /\ UNCHANGED <<os_pid, now, ticks, gate_passed, announced_once, reset_pc>>

HandleFork ==
    /\ Called("handle_fork", handle_fork(agent))
    /\ UNCHANGED <<os_pid, now, ticks, gate_passed, announced_once, reset_pc>>

Reset ==
    /\ Called("reset", reset(agent))
    /\ UNCHANGED <<os_pid, now, ticks, gate_passed, announced_once, reset_pc>>

IsAgentListening ==
    /\ agent.machine.current = "notannounced"
    /\ \E outcome \in TransportOutcomes, server_header \in { "Instana Agent", "nginx" } :
          LET r == is_agent_listening(agent, outcome, server_header)
              m == machine_after_lookup(r.self.machine, r.ret = PyBool(TRUE))
          IN  Called("is_agent_listening", [r EXCEPT !.self.machine = m])
    /\ UNCHANGED <<os_pid, now, ticks, gate_passed, announced_once, reset_pc>>

Announce ==
    /\ agent.machine.current = "announcing"
    /\ ~agent.machine.response
    /\ \E outcome \in TransportOutcomes :
          LET r == announce(agent, now, outcome)
              m == machine_after_announce(r.self.machine, r.ret)
          IN  Called("announce", [r EXCEPT !.self.machine = m])
    /\ UNCHANGED <<os_pid, now, ticks, gate_passed, announced_once, reset_pc>>

SetFrom ==
    /\ agent.machine.response
    /\ \E payload \in Payloads :
          LET r == set_from(agent, payload)
              m == machine_after_set_from(r.self.machine, r.raised)
          IN  /\ CalledWith("set_from", payload, [r EXCEPT !.self.machine = m])
              /\ announced_once' = (announced_once \/ ~r.raised)
    /\ UNCHANGED <<os_pid, now, ticks, gate_passed, reset_pc>>

IsAgentReady ==
    /\ \E outcome \in TransportOutcomes :
          LET r == is_agent_ready(agent, outcome)
          IN  IF machine_becomes_ready(r.self.machine, r.ret)
              THEN Called("is_agent_ready",
                          [r EXCEPT !.self = [start(r.self).self
                                                EXCEPT !.machine.current = "good2go"]])
              ELSE Called("is_agent_ready", r)
    /\ UNCHANGED <<os_pid, now, ticks, gate_passed, announced_once, reset_pc>>

ReportDataPayload ==
    /\ gate_passed
    /\ \E outcome \in TransportOutcomes :
          Called("report_data_payload", report_data_payload(agent, now, outcome))
    /\ gate_passed' = FALSE
    /\ UNCHANGED <<os_pid, now, ticks, announced_once, reset_pc>>

ReportTraces ==
    /\ gate_passed
    /\ \E outcome \in TransportOutcomes, n_spans \in 0 .. MaxSpans :
          CalledWith("report_traces", n_spans, report_traces(agent, now, n_spans, outcome))
    /\ gate_passed' = FALSE
    /\ UNCHANGED <<os_pid, now, ticks, announced_once, reset_pc>>

(* The collector pushes a task to a process that has announced itself. *)
HandleAgentTasks ==
    /\ announced_once
    /\ \E task \in Tasks, outcome \in TransportOutcomes :
          CalledWith("handle_agent_tasks", task, handle_agent_tasks(agent, task, outcome))
    /\ UNCHANGED <<os_pid, now, ticks, gate_passed, announced_once, reset_pc>>

Next ==
    \/ Tick
    \/ Fork
    \/ CanSend
    \/ IsTimedOut
    \/ HandleFork
    \/ Reset
    \/ IsAgentListening
    \/ Announce
    \/ SetFrom
    \/ IsAgentReady
    \/ ReportDataPayload
    \/ ReportTraces
    \/ HandleAgentTasks

Spec == Init /\ [][Next]_vars

----------------------------------------------------------------------------
(* reset() running on one thread, statement by statement, while the other
   threads call the methods above. *)

ResetStep(at, to, self, n) ==
    /\ reset_pc = at
    /\ reset_pc' = to
    /\ Called("reset_statement", Result(self, PyNone, FALSE, << >>, n, n))
    /\ UNCHANGED <<os_pid, now, ticks, gate_passed, announced_once>>

ResetSetsShutdown == ResetStep("idle", "line88", reset_sets_shutdown(agent), 0)

ResetClearsLastSeen == ResetStep("line88", "line89", reset_clears_last_seen(agent), 0)

ResetClearsAnnounceData == ResetStep("line89", "line92", reset_clears_announce_data(agent), 0)

ResetRestartsMachine == ResetStep("line92", "idle", reset_restarts_machine(agent), 1)

NextConc ==
    \/ ResetSetsShutdown
    \/ ResetClearsLastSeen
    \/ ResetClearsAnnounceData
    \/ ResetRestartsMachine
    \/ Tick
    \/ Fork
    \/ CanSend
    \/ IsTimedOut
    \/ IsAgentListening
    \/ Announce
    \/ SetFrom
    \/ IsAgentReady
    \/ ReportDataPayload
    \/ ReportTraces

SpecConc == Init /\ [][NextConc]_vars

-----------------------------------------------------------------------------
(* A reporter thread inside get_from_structure() while the controller's
   thread runs the announce cycle and reset().  The reporter's two reads of
   self.announce_data are two steps; no lock is held between them. *)

GetFromStructureReadsPid ==
    /\ thread.pc \in {"idle", "returned", "raised"}
    /\ LET e == get_from_structure_e(agent)
       IN  /\ thread' = IF e.exc
                        THEN ThreadAt("raised", None, None, FALSE)
                        ELSE ThreadAt("line152_h", e.value, None, FALSE)
           /\ Effects("get_from_structure", Result(agent, PyNone, e.exc, << >>, 0, 0))
    /\ arg' = None
    /\ UNCHANGED <<os_pid, now, ticks, gate_passed, announced_once, reset_pc>>

GetFromStructureReadsAgentUuid ==
    /\ thread.pc = "line152_h"
    /\ LET h == get_from_structure_h(agent)
       IN  /\ thread' = IF h.exc
                        THEN ThreadAt("raised", thread.e, None, FALSE)
                        ELSE ThreadAt("returned", thread.e, h.value, FALSE)
           /\ Effects("get_from_structure", Result(agent, PyNone, h.exc, << >>, 0, 0))
    /\ arg' = None
    /\ UNCHANGED <<os_pid, now, ticks, gate_passed, announced_once, reset_pc>>

NextReader ==
    \/ GetFromStructureReadsPid
    \/ GetFromStructureReadsAgentUuid
    \/ IsAgentListening
    \/ Announce
    \/ SetFrom
    \/ IsAgentReady
    \/ Reset

SpecReader == Init /\ [][NextReader]_vars

-----------------------------------------------------------------------------
(* A producer thread inside report_data_payload() or report_traces() while
   the controller's thread runs the announce cycle and reset().  The POST
   blocks the producer until the response arrives: sending the request and
   handling the response are two steps, and reset() may run between them. *)

PushCalls == { "report_data_payload", "report_traces" }

push_url(call, self) ==
    IF call = "report_data_payload" THEN data_url(self) ELSE traces_url(self)

(* The producer passed the gate, built the URL and sent the POST; when the
   URL cannot be built the exception is swallowed and the call is over. *)
PushSends ==
    /\ gate_passed
    /\ thread.pc = "idle"
    /\ \E call \in PushCalls :
          LET url == push_url(call, agent)
              body == [exc |-> TRUE, self |-> agent, response |-> PyNone, net |-> << >>]
          IN  /\ thread' = IF url.exc
                           THEN thread
                           ELSE ThreadAt(call, url.pid, None, FALSE)
              /\ Effects(call, except_finally_return(body, body.response))
              /\ arg' = IF call = "report_traces" THEN Some(MaxSpans) ELSE None
    /\ gate_passed' = FALSE
    /\ UNCHANGED <<os_pid, now, ticks, announced_once, reset_pc>>

(* The response arrives, or the transport raises: the rest of the try block
   runs on the object as it is now. *)
PushReceives ==
    /\ thread.pc \in PushCalls
    /\ \E outcome \in TransportOutcomes :
          LET url == [exc |-> FALSE, path |-> push_url(thread.pc, agent).path, pid |-> thread.e]
              body == try_request(agent, "POST", url, outcome,
                                  [agent EXCEPT !.last_seen = Some(now)])
          IN  Effects(thread.pc, except_finally_return(body, body.response))
    /\ arg' = IF thread.pc = "report_traces" THEN Some(MaxSpans) ELSE None
    /\ thread' = ThreadAt("idle", None, None, FALSE)
    /\ UNCHANGED <<os_pid, now, ticks, gate_passed, announced_once, reset_pc>>

(* reset() on the controller's thread; a push whose request is out is from
   now on a push from before the reset. *)
ResetDuringPush ==
    /\ Effects("reset", reset(agent))
    /\ arg' = None
    /\ thread' = [thread EXCEPT !.stale = (thread.pc \in PushCalls)]
    /\ UNCHANGED <<os_pid, now, ticks, gate_passed, announced_once, reset_pc>>

NextPush ==
    \/ PushSends
    \/ PushReceives
    \/ ResetDuringPush
    \/ Tick
    \/ CanSend
    \/ IsAgentListening
    \/ Announce
    \/ SetFrom
    \/ IsAgentReady

SpecPush == Init /\ [][NextPush]_vars

----------------------------------------------------------------------------
(* Properties *)

CollectorOps == { "announce", "is_agent_ready", "report_data_payload", "report_traces" }

LastSeenOps == { "announce", "report_data_payload", "report_traces" }

(* The last method got a response from the collector. *)
GotResponse == net # << >> /\ ~net[Len(net)].outcome.exc

(* The last method got an HTTP 200 response from the collector. *)
Got200 == GotResponse /\ net[Len(net)].outcome.status_code = 200

(* can_send() would return True now: no undetected fork, machine ready. *)
WouldSend == os_pid = agent.boot_pid /\ agent.machine.current = "good2go"

(* datetime.now() - last_seen is more than 60 seconds. *)
ContactIsOld == agent.last_seen # None /\ now - agent.last_seen[1] > TimeoutSeconds

(* C1: a can_send() that finds os.getpid() different from _boot_pid returns
   False whatever the machine's state, records the new pid and runs reset()
   exactly once; a can_send() with no new fork runs no reset(). *)
C1_ForkDetectedOnce ==
    [][ op' = "can_send" =>
          IF os_pid # agent.boot_pid
          THEN /\ ret' = PyBool(FALSE)
               /\ agent'.boot_pid = os_pid
               /\ resets' = 1
          ELSE resets' = 0 ]_vars

C1_Witness ==
    /\ op = "can_send"
    /\ resets = 1
    /\ ret = PyBool(FALSE)
    /\ os_pid = 1 + MaxForks
    /\ agent.boot_pid = os_pid

(* C2: with os.getpid() equal to _boot_pid, can_send() returns True exactly
   when the machine's current state is "good2go", and changes nothing of the
   agent. *)
C2_CanSendIffReady ==
    [][ (op' = "can_send" /\ os_pid = agent.boot_pid) =>
          /\ ret' = PyBool(agent.machine.current = "good2go")
          /\ agent' = agent ]_vars

C2_Witness ==
    /\ op = "can_send"
    /\ resets = 0
    /\ ret = PyBool(TRUE)
    /\ agent.announce_data # None

(* C3 as stated: every HTTP 200 response to announce, is_agent_ready,
   report_data_payload or report_traces sets last_seen to the time of the
   response. *)
C3_Every200SetsLastSeen ==
    (op \in CollectorOps /\ Got200) => agent.last_seen = Some(now)

(* C3 amended: a 200 response to announce, report_data_payload or
   report_traces sets last_seen to the time of the response, is_agent_ready
   leaves last_seen as it was, and so last_seen is the time of the latest 200
   response to one of those three since the last reset(), or None. *)
C3_LastSeenIsLatestSuccess ==
    [][ /\ (op' \in LastSeenOps /\ Got200') => agent'.last_seen = Some(now')
        /\ (op' = "is_agent_ready") => agent'.last_seen = agent.last_seen
        /\ agent'.last_seen =
              IF resets' > 0 THEN None
              ELSE IF op' \in LastSeenOps /\ Got200' THEN Some(now')
              ELSE agent.last_seen ]_vars

C3_Witness ==
    /\ op = "is_agent_ready"
    /\ Got200
    /\ agent.last_seen # None
    /\ agent.last_seen # Some(now)

(* C4: a collector operation that got no 200 response (another status, or
   an exception) leaves last_seen as it was, and last_seen changes only with
   a 200 response to a collector operation or with a reset(). *)
C4_LastSeenOnlyOn200 ==
    [][ /\ (op' \in CollectorOps /\ ~Got200') => agent'.last_seen = agent.last_seen
        /\ agent'.last_seen # agent.last_seen =>
              \/ resets' > 0
              \/ op' \in CollectorOps /\ Got200' ]_vars

C4_Witness ==
    /\ op = "report_data_payload"
    /\ GotResponse
    /\ ~Got200
    /\ agent.last_seen # None

(* C5: is_timed_out() returns True exactly when last_seen is set, can_send()
   would return True, and more than 60 seconds have passed since last_seen. *)
C5_TimedOutIffAllowedAndLate ==
    op = "is_timed_out" => ret = PyBool(WouldSend /\ ContactIsOld)

(* C6: while can_send() would return True, is_timed_out() is False with no
   last_seen, False up to 60 seconds after last_seen, and True for every
   longer time, a day or more included. *)
C6_TimedOutForEveryLongerTime ==
    (op = "is_timed_out" /\ WouldSend) => ret = PyBool(ContactIsOld)

(* C7: after reset(), whatever the state it was called in, the shutdown
   signal is set, last_seen and announce_data are None, machine.reset() was
   called exactly once and no exception left the call. *)
C7_ResetLeavesFreshState ==
    op = "reset" =>
        /\ agent.should_threads_shutdown
        /\ agent.last_seen = None
        /\ agent.announce_data = None
        /\ machine_resets = 1
        /\ ~raised

C7_Witness ==
    /\ op = "reset"
    /\ ~announced_once
    /\ agent.should_threads_shutdown

(* C8: in the state a reset() leaves, a second reset() changes nothing of
   the agent: shutdown signal, last_seen, announce_data, _boot_pid, secrets
   and header configuration, machine state. *)
C8_ResetIdempotent ==
    op = "reset" => reset(agent).self = agent

C8_Witness ==
    /\ op = "reset"
    /\ announced_once
    /\ agent.secrets_matcher = "regex"
    /\ reset(agent).self = agent

(* C9: in every state, the states between the statements of reset()
   included, announce_data is set exactly when the machine is in "announced"
   or beyond; so announce_data is set whenever can_send() returns True. *)
C9_AnnounceDataIffAnnounced ==
    /\ (agent.announce_data # None) <=> (agent.machine.current \in AnnouncedOrBeyond)
    /\ (op = "can_send" /\ ret = PyBool(TRUE)) => agent.announce_data # None

(* C10: no exception leaves announce, is_agent_ready, report_data_payload or
   report_traces, and a call that got no response from the collector (the
   transport raised, or no URL could be built) returns None, False for
   is_agent_ready. *)
C10_NoExceptionLeaves ==
    op \in CollectorOps =>
        /\ ~raised
        /\ ~GotResponse =>
              ret = IF op = "is_agent_ready" THEN PyBool(FALSE) ELSE PyNone

C10_Witness ==
    /\ op = "report_data_payload"
    /\ agent.announce_data = None
    /\ net = << >>
    /\ ret = PyNone
    /\ ~raised

(* C11: report_traces with an empty list of spans issues no request and
   changes nothing of the agent, whatever its state. *)
C11_EmptyTracesIsNoOp ==
    [][ (op' = "report_traces" /\ arg' = Some(0)) =>
          /\ net' = << >>
          /\ agent' = agent ]_vars

C11_Witness ==
    /\ op = "report_traces"
    /\ arg = Some(0)
    /\ net = << >>
    /\ agent.announce_data # None
    /\ agent.last_seen # None

(* The operations whose URL carries the announced pid. *)
IdentityOps ==
    { "is_agent_ready", "report_data_payload", "report_traces", "handle_agent_tasks" }

(* C12: every request of a readiness probe, data push, trace push or task
   response goes to the pid stored by the latest successful set_from, never
   to an earlier one and never to the pid of the process. *)
C12_RequestsUseAcceptedPid ==
    op \in IdentityOps =>
        \A i \in 1 .. Len(net) :
            /\ accepted # None
            /\ net[i].pid = Some(accepted[1].pid)
            /\ net[i].pid # Some(os_pid)

C12_Witness ==
    /\ op = "report_data_payload"
    /\ net # << >>
    /\ net[1].path = "com.instana.plugin.python."
    /\ net[1].pid = Some(42)
    /\ agent.boot_pid > 1

(* The task carries a messageId and, when its action is "python.source", the
   args that name the file. *)
TaskIsComplete(task) ==
    /\ "messageId" \in task.keys
    /\ ("action" \in task.keys /\ task.action = "python.source") => "args" \in task.keys

(* The last method issued exactly one POST to the task-response endpoint,
   keyed by the messageId of the task. *)
OneResponsePosted(task) ==
    /\ Len(net) = 1
    /\ net[1].method = "POST"
    /\ net[1].path = "com.instana.plugin.python/response."
    /\ net[1].message_id = task.messageId

(* C13 as stated: for every task, source request, unrecognized action or no
   action, handle_agent_tasks issues exactly one POST to the task-response
   endpoint keyed by the messageId, in every state it is called in. *)
C13_AlwaysOneResponse ==
    (op = "handle_agent_tasks" /\ TaskIsComplete(arg[1])) =>
        /\ ~raised
        /\ OneResponsePosted(arg[1])

(* C13 amended: with announce_data set, handle_agent_tasks issues exactly one
   POST to the task-response endpoint keyed by the messageId in each of the
   three cases; with announce_data None it issues none; in both no exception
   leaves the call, whatever the transport does. *)
C13_OneResponseWhenAnnounced ==
    (op = "handle_agent_tasks" /\ TaskIsComplete(arg[1])) =>
        /\ ~raised
        /\ IF agent.announce_data # None
           THEN OneResponsePosted(arg[1])
           ELSE net = << >>

C13_Witness ==
    /\ op = "handle_agent_tasks"
    /\ arg[1].messageId = "m3"
    /\ agent.announce_data = None
    /\ net = << >>
    /\ ~raised

(* C14: for a task with an unrecognized action or with no action,
   handle_agent_tasks raises nothing, and the payload of the response it
   posts is the error naming the action and the version, or the error saying
   that no action was specified. *)
C14_UnknownActionIsAnswered ==
    (op = "handle_agent_tasks" /\ ~("action" \in arg[1].keys /\ arg[1].action = "python.source")) =>
        /\ ~raised
        /\ \A i \in 1 .. Len(net) :
              net[i].data = IF "action" \in arg[1].keys
                            THEN unrecognized_action_error(arg[1].action)
                            ELSE no_action_error

C14_Witness ==
    /\ op = "handle_agent_tasks"
    /\ arg[1].action = "unknown.x"
    /\ ~raised
    /\ net # << >>
    /\ net[1].data = [kind |-> "error", about |-> "unknown.x", version |-> TRUE]

(* C15: set_from given a payload that is not parseable JSON raises to its
   caller and leaves announce_data, the secrets matcher and list and
   extra_headers as they were; no other operation lets an exception out for
   an input the protocol describes. *)
C15_ParseErrorPropagates ==
    [][ /\ (op' = "set_from" /\ ~arg'[1].json_ok) =>
              /\ raised'
              /\ agent'.announce_data = agent.announce_data
              /\ agent'.secrets_matcher = agent.secrets_matcher
              /\ agent'.secrets_list = agent.secrets_list
              /\ agent'.extra_headers = agent.extra_headers
        /\ raised' =>
              \/ op' = "set_from"
              \/ op' = "handle_agent_tasks" /\ ~TaskIsComplete(arg'[1]) ]_vars

C15_Witness ==
    /\ op = "set_from"
    /\ ~arg[1].json_ok
    /\ raised
    /\ agent.secrets_matcher = "regex"
    /\ agent.extra_headers = "X-Collector"

(* The step ran start(): the machine found the agent ready while announced. *)
StartRan ==
    /\ op' = "is_agent_ready"
    /\ ret' = PyBool(TRUE)
    /\ agent.machine.current = "announced"

(* C16: every step that runs reset(), directly, through handle_fork() or
   through the fork detection of can_send(), leaves the shutdown event set;
   every step that runs start() leaves it cleared; every other step leaves it
   as it was.  So the event is set exactly when the latest of the reset() and
   start() calls was a reset(). *)
C16_ShutdownFollowsLatestResetOrStart ==
    [][ agent'.should_threads_shutdown =
          IF resets' > 0 THEN TRUE
          ELSE IF StartRan THEN FALSE
          ELSE agent.should_threads_shutdown ]_vars

C16_Witness ==
    /\ op = "is_agent_ready"
    /\ agent.machine.current = "good2go"
    /\ ~agent.should_threads_shutdown
    /\ agent.boot_pid > 1

(* The (pid, agentUuid) pairs that announce_data can hold. *)
Identities ==
    { <<p.pid, p.agentUuid>> : p \in { q \in Payloads : {"pid", "agentUuid"} \subseteq q.keys } }

(* C17: a get_from_structure() that runs while another thread runs set_from()
   or reset() returns a pid and an agentUuid that belong to one announce_data
   value, and never fails on the second field after it has read the first. *)
C17_IdentityReadWhole ==
    /\ thread.pc = "returned" => <<thread.e[1], thread.h[1]>> \in Identities
    /\ thread.pc = "raised" => thread.e = None

(* C18 as stated: the can_send() that follows a handle_fork() called by the
   post-fork hook does not detect the fork again and runs no reset(). *)
C18_HookedForkNotDetectedAgain ==
    [][ (op = "handle_fork" /\ op' = "can_send") => resets' = 0 ]_vars

(* C18 amended: handle_fork() runs reset() once and leaves _boot_pid as it
   was; so the can_send() that follows it in the forked child still finds
   os.getpid() different from _boot_pid, runs reset() a second time, records
   the pid and returns False; the can_send() after that one runs no reset(). *)
C18_HookedForkDetectedAgainOnce ==
    [][ /\ op' = "handle_fork" =>
              /\ resets' = 1
              /\ agent'.boot_pid = agent.boot_pid
        /\ (op = "handle_fork" /\ op' = "can_send" /\ os_pid # agent.boot_pid) =>
              /\ resets' = 1
              /\ ret' = PyBool(FALSE)
              /\ agent'.boot_pid = os_pid
        /\ (op = "can_send" /\ op' = "can_send") => resets' = 0 ]_vars

C18_Witness ==
    /\ op = "handle_fork"
    /\ resets = 1
    /\ os_pid # agent.boot_pid
    /\ agent.should_threads_shutdown
    /\ agent.machine.current = "notannounced"

(* C19 as stated: a push whose request went out before reset() ran does not
   write last_seen after that reset(). *)
C19_StalePushDoesNotWriteLastSeen ==
    [][ (thread.stale /\ op' \in PushCalls) => agent'.last_seen = agent.last_seen ]_vars

(* C19 amended: reset() leaves last_seen None, and last_seen leaves None only
   in a step that got an HTTP 200 response; but the 200 response to a push
   whose request went out before the reset() does write last_seen, with the
   time the response arrived. *)
C19_StalePushWritesLastSeen ==
    [][ /\ op' = "reset" => agent'.last_seen = None
        /\ (agent.last_seen = None /\ agent'.last_seen # None) => Got200'
        /\ (thread.stale /\ op' \in PushCalls) =>
              agent'.last_seen = IF Got200' THEN Some(now) ELSE agent.last_seen ]_vars

C19_Witness ==
    /\ op \in PushCalls
    /\ Got200
    /\ agent.last_seen = Some(now)
    /\ agent.announce_data = None
    /\ agent.machine.current = "notannounced"
    /\ agent.should_threads_shutdown

(* C20: a set_from() that raises leaves announce_data, the secrets matcher
   and list and extra_headers as they were before the call. *)
C20_SetFromAllOrNothing ==
    [][ (op' = "set_from" /\ raised') =>
          /\ agent'.announce_data = agent.announce_data
          /\ agent'.secrets_matcher = agent.secrets_matcher
          /\ agent'.secrets_list = agent.secrets_list
          /\ agent'.extra_headers = agent.extra_headers ]_vars

====
